---------------------------- MODULE Spec2Model ----------------------------
(***************************************************************************)
(* A model of image-fit's four transform components:                       *)
(*   - the crop page's gesture state machine (pages/CropImage.tsx),         *)
(*   - the target-size compressor (CompressImage, in pages/Home.tsx),       *)
(*   - the fit compositor's geometry (processImage, processor.ts),          *)
(*   - the step-down resampler (resizeImage, pages/ResizeImage.tsx).        *)
(*                                                                         *)
(* JavaScript numbers are modelled as exact rationals <<n, d>> (d > 0, in   *)
(* lowest terms): the model follows the arithmetic of the code, without     *)
(* the rounding error of IEEE doubles.                                      *)
(***************************************************************************)
EXTENDS Integers, Sequences, FiniteSets, TLC

VARIABLES
    \* ---- crop page (pages/CropImage.tsx) ----
    originalImage,  \* NoImage (null), or <<naturalWidth, naturalHeight>>
    selectedPreset, \* name of the active aspect preset
    cropArea,       \* [x, y, width, height], rationals
    rotation,       \* degrees
    isDragging,     \* BOOLEAN
    isResizing,     \* None, or the handle "nw" | "ne" | "sw" | "se"
    dragStart,      \* [x, y]: client position at pointer-down
    cropStart,      \* the cropArea at pointer-down
    displayScale,   \* rational
    pointerHeld,    \* environment: a pointer button is held over the wrapper
    gestures        \* number of pointer-downs so far (bounds the exploration)

VARIABLES
    \* ---- target-size compressor (compressToTargetSize, pages/Home.tsx) ----
    encoder,        \* the canvas encoder's behaviour (see EncoderOutputs)
    targetBytes,    \* the byte budget
    low, high,      \* the search interval, in units of 1 / QualityDen
    bestBlob,       \* NoBlob (null), or the last probe within budget
    iter,           \* the loop counter i
    pending,        \* NoQuality, or the quality of the encode being awaited
    searchPc,       \* "idle" | "loop" | "fallback" | "done" | "failed"
    returned,       \* NoBlob, or the blob the search resolved with
    issued,         \* history: the qualities canvasToBlob was called with
    probes          \* history: the blobs the encoder has produced, in order

compressVars == <<encoder, targetBytes, low, high, bestBlob, iter, pending,
                  searchPc, returned, issued, probes>>

VARIABLES
    \* ---- compress page (CompressImage, pages/Home.tsx) ----
    fileType,        \* originalFile.type
    compressionMode, \* "quality" | "target-size"
    compressFormat,  \* outputFormat: "jpeg" | "webp" | "original"
    mimeType,        \* the mimeType the running (or last) compressImage resolved
    compressedBlob,  \* NoBlob (null), or the stored blob
    compressedUrl,   \* NoUrl (null), or the serial number of the preview URL
    compressError,   \* error: FALSE (null), or TRUE ('Failed to compress image')
    isCompressing,   \* BOOLEAN
    pagePc,          \* "idle" | "encoding" | "searching": where compressImage is
    directEncodes,   \* canvas.toBlob calls compressImage made itself in this run
    urlsCreated,     \* URL.createObjectURL calls so far
    runs             \* compressImage calls so far (bounds the exploration)

pageVars == <<fileType, compressionMode, compressFormat, mimeType,
              compressedBlob, compressedUrl, compressError, isCompressing,
              pagePc, directEncodes, urlsCreated, runs>>

VARIABLES
    \* ---- compress page: calls of compressImage that overlap ----
    inflight,       \* the calls in flight: [run, left], left = encodes to settle
    storedRun       \* 0, or the call whose blob is in compressedBlob

overlapVars == <<inflight, storedRun>>

VARIABLES
    \* ---- fit page (App.tsx, processImage in processor.ts) ----
    fitImage,       \* NullImage, or <<naturalWidth, naturalHeight>>
    outputFormat,   \* "a4" | "whatsapp-dp"
    fitResult       \* NoResult, or the ProcessingResult's geometry

fitVars == <<fitImage, outputFormat, fitResult>>

VARIABLES
    \* ---- step-down resampler (resizeImage, pages/ResizeImage.tsx) ----
    resizeSource,   \* <<naturalWidth, naturalHeight>> of the source
    resizeTarget,   \* <<targetW, targetH>>
    currentCanvas,  \* <<width, height>> of currentCanvas
    finalCanvas,    \* NoCanvas, or <<width, height>> of the returned canvas
    resizePc        \* "idle" | "loop" | "done"

resizeVars == <<resizeSource, resizeTarget, currentCanvas, finalCanvas, resizePc>>

VARIABLES
    \* ---- resize page (pages/ResizeImage.tsx) ----
    percentage,        \* the percentage state
    resizedCanvasRef,  \* NoCanvas, or <<width, height>> of resizedCanvasRef.current
    resizeError        \* None, or the message of the error state

resizePageVars == <<percentage, resizedCanvasRef, resizeError>>

VARIABLES
    \* ---- resize page: the debounce timer and the toBlob callbacks ----
    resizeTimeout,   \* NoCanvas, or <<width, height>> the pending timer holds
    timerLeft,       \* time units until the pending timer is due
    sinceEdit,       \* time units since the last dimension edit (saturating)
    encoding,        \* number of calls of toBlob whose callback has not run
    previewUrlRef,   \* NoUrl, or the object URL in previewUrlRef.current
    previewUrl,      \* NoUrl, or the object URL in the previewUrl state
    liveUrls,        \* object URLs created and not revoked
    previewUrlsMade, \* number of object URLs created
    pageIsResizing,  \* the page's isResizing state
    resamples,       \* calls of resizeImage since the last dimension edit
    lastResample,    \* NoCanvas, or the target of the last call of resizeImage
    edits            \* file selections and dimension edits so far

asyncVars == <<resizeTimeout, timerLeft, sinceEdit, encoding, previewUrlRef,
               previewUrl, liveUrls, previewUrlsMade, pageIsResizing, resamples,
               lastResample, edits>>

cropVars == <<originalImage, selectedPreset, cropArea, rotation, isDragging,
              isResizing, dragStart, cropStart, displayScale, pointerHeld,
              gestures>>

VARIABLES
    \* ---- crop page: what handleCropAndDownload produced ----
    download        \* NoDownload, or the canvases of the last export

exportVars == <<download>>

VARIABLES
    \* ---- crop page: the error state ----
    cropError       \* None, or the message of the error state

loadVars == <<cropError>>

None == "none"

-----------------------------------------------------------------------------
(* Exact rational arithmetic for JavaScript numbers.                        *)

Abs(n) == IF n < 0 THEN -n ELSE n

RECURSIVE GCD(_, _)
GCD(a, b) == IF b = 0 THEN a ELSE GCD(b, a % b)

Norm(n, d) ==
    LET g == GCD(Abs(n), Abs(d))
        s == IF d < 0 THEN -1 ELSE 1
    IN  <<(s * n) \div g, (s * d) \div g>>

R(n) == <<n, 1>>
RAdd(a, b) == Norm(a[1] * b[2] + b[1] * a[2], a[2] * b[2])
RSub(a, b) == Norm(a[1] * b[2] - b[1] * a[2], a[2] * b[2])
RMul(a, b) == Norm(a[1] * b[1], a[2] * b[2])
RDiv(a, b) == Norm(a[1] * b[2], a[2] * b[1])
RLt(a, b) == a[1] * b[2] < b[1] * a[2]
RLe(a, b) == a[1] * b[2] <= b[1] * a[2]
RMax(a, b) == IF RLt(a, b) THEN b ELSE a
RMin(a, b) == IF RLt(b, a) THEN b ELSE a
RAbs(a) == <<Abs(a[1]), a[2]>>
\* Math.round: to the nearest integer, halves towards +Infinity.
Round(a) == (2 * a[1] + a[2]) \div (2 * a[2])

-----------------------------------------------------------------------------
(* Crop page: CropImage.tsx                                                 *)

\* Bounds of the exploration.
MaxGestures == 2

\* Source images <<naturalWidth, naturalHeight>> offered to the page: one
\* smaller than the 50-unit resize floor, one displayed at scale 1, one
\* displayed scaled down (550 x 380 preview box).
Images == {<<40, 40>>, <<200, 150>>, <<1100, 760>>}

\* Client coordinates the pointer visits.
PointerXs == {0, 120}
PointerYs == {0, 120}

Handles == {"nw", "ne", "sw", "se"}

\* originalImage = null.
NoImage == <<0, 0>>

\* ASPECT_PRESETS, ratio as a rational; the freeform preset's null ratio is
\* NoRatio, and Truthy is JavaScript's `if (ratio)`.  The two A4 presets
\* (ratio sqrt 2 and 1 / sqrt 2) have no exact rational value and are left
\* out.
NoRatio == <<0, 1>>
Truthy(ratio) == ratio[1] # 0

PresetNames == {"free", "1:1", "4:3", "3:4", "16:9", "9:16"}

PresetRatio(p) ==
    CASE p = "free" -> NoRatio
      [] p = "1:1"  -> <<1, 1>>
      [] p = "4:3"  -> <<4, 3>>
      [] p = "3:4"  -> <<3, 4>>
      [] p = "16:9" -> <<16, 9>>
      [] p = "9:16" -> <<9, 16>>

Area(x, y, w, h) == [x |-> x, y |-> y, width |-> w, height |-> h]

\* The minimum size the resize branch applies (Math.max(50, ...)).
MinCropSize == 50

\* updateScale: Math.min(550 / naturalWidth, 380 / naturalHeight, 1).
updateScale(img) ==
    RMin(RMin(<<550, img[1]>>, <<380, img[2]>>), R(1))

\* The effect on [originalImage, selectedPreset.ratio]: 80% of the image,
\* cut to the preset's ratio, centred.
InitialCropArea(img, ratio) ==
    LET w == R(img[1])
        h == R(img[2])
        w80 == RMul(w, <<4, 5>>)
        h80 == RMul(h, <<4, 5>>)
        cropW == IF Truthy(ratio) /\ RLt(ratio, RDiv(w80, h80))
                 THEN RMul(h80, ratio) ELSE w80
        cropH == IF Truthy(ratio) /\ ~RLt(ratio, RDiv(w80, h80))
                 THEN RDiv(w80, ratio) ELSE h80
    IN  Area(RDiv(RSub(w, cropW), R(2)), RDiv(RSub(h, cropH), R(2)), cropW, cropH)

\* handlePresetChange's own recomputation (before the effect runs).
PresetCropArea(img, area, ratio) ==
    LET w == R(img[1])
        h == R(img[2])
        wide == RLt(ratio, RDiv(area.width, area.height))
        newW == IF wide THEN RMul(area.height, ratio) ELSE area.width
        newH == IF wide THEN area.height ELSE RDiv(area.width, ratio)
        centerX == RAdd(area.x, RDiv(area.width, R(2)))
        centerY == RAdd(area.y, RDiv(area.height, R(2)))
        newX == RMax(R(0), RMin(RSub(w, newW), RSub(centerX, RDiv(newW, R(2)))))
        newY == RMax(R(0), RMin(RSub(h, newH), RSub(centerY, RDiv(newH, R(2)))))
    IN  Area(newX, newY, newW, newH)

\* handleMouseMove, drag branch.
DragArea(cs, deltaX, deltaY, imgW, imgH) ==
    LET newX == RMax(R(0), RMin(RSub(imgW, cs.width), RAdd(cs.x, deltaX)))
        newY == RMax(R(0), RMin(RSub(imgH, cs.height), RAdd(cs.y, deltaY)))
    IN  [cs EXCEPT !.x = newX, !.y = newY]

\* The east edge follows the pointer: width floored at 50, capped at the
\* image's right side (cases 'se' and 'ne').
EastWidth(cs, deltaX, imgW) ==
    RMax(R(MinCropSize), RMin(RSub(imgW, cs.x), RAdd(cs.width, deltaX)))

\* The south edge follows the pointer (cases 'se' and 'sw').
SouthHeight(cs, deltaY, imgH) ==
    RMax(R(MinCropSize), RMin(RSub(imgH, cs.y), RAdd(cs.height, deltaY)))

\* The west edge follows the pointer, the east edge stays (cases 'sw', 'nw'):
\* <<x, width>>.
WestEdge(cs, deltaX) ==
    LET newWidth == RMax(R(MinCropSize), RSub(cs.width, deltaX))
        newX == RSub(RAdd(cs.x, cs.width), newWidth)
    IN  IF RLt(newX, R(0)) THEN <<R(0), RAdd(newWidth, newX)>>
        ELSE <<newX, newWidth>>

\* The north edge follows the pointer (cases 'ne', 'nw'): <<y, height>>.
NorthEdge(cs, deltaY) ==
    LET newHeight == RMax(R(MinCropSize), RSub(cs.height, deltaY))
        newY == RSub(RAdd(cs.y, cs.height), newHeight)
    IN  IF RLt(newY, R(0)) THEN <<R(0), RAdd(newHeight, newY)>>
        ELSE <<newY, newHeight>>

\* handleMouseMove, resize branch: the switch on the handle.
FreeResizeArea(h, cs, deltaX, deltaY, imgW, imgH) ==
    CASE h = "se" ->
           Area(cs.x, cs.y, EastWidth(cs, deltaX, imgW), SouthHeight(cs, deltaY, imgH))
      [] h = "sw" ->
           LET we == WestEdge(cs, deltaX)
           IN  Area(we[1], cs.y, we[2], SouthHeight(cs, deltaY, imgH))
      [] h = "ne" ->
           LET ne == NorthEdge(cs, deltaY)
           IN  Area(cs.x, ne[1], EastWidth(cs, deltaX, imgW), ne[2])
      [] h = "nw" ->
           LET we == WestEdge(cs, deltaX)
               ne == NorthEdge(cs, deltaY)
           IN  Area(we[1], ne[1], we[2], ne[2])

\* String.includes on a handle name.
HandleIncludes(h, c) ==
    CASE c = "n" -> h \in {"nw", "ne"}
      [] c = "s" -> h \in {"sw", "se"}
      [] c = "e" -> h \in {"ne", "se"}
      [] c = "w" -> h \in {"nw", "sw"}

\* Faulty variant of AspectConstrain: an overflowing edge is clamped without
\* deriving the other dimension again.
AspectConstrain_ClampOnly(h, a, targetRatio, imgW, imgH) ==
    LET a1 == [a EXCEPT !.height = RDiv(a.width, targetRatio)]
        a2 == IF RLt(imgW, RAdd(a1.x, a1.width))
              THEN [a1 EXCEPT !.width = RSub(imgW, a1.x)]
              ELSE a1
        a3 == IF RLt(imgH, RAdd(a2.y, a2.height))
              THEN [a2 EXCEPT !.height = RSub(imgH, a2.y)]
              ELSE a2
    IN  a3

\* handleMouseMove, "Apply aspect ratio constraint".
AspectConstrain(h, a, targetRatio, imgW, imgH) ==
    LET a1 == IF HandleIncludes(h, "e") \/ HandleIncludes(h, "w")
              THEN [a EXCEPT !.height = RDiv(a.width, targetRatio)]
              ELSE [a EXCEPT !.width = RMul(a.height, targetRatio)]
        a2 == IF RLt(imgW, RAdd(a1.x, a1.width))
              THEN [a1 EXCEPT !.width = RSub(imgW, a1.x),
                              !.height = RDiv(RSub(imgW, a1.x), targetRatio)]
              ELSE a1
        a3 == IF RLt(imgH, RAdd(a2.y, a2.height))
              THEN [a2 EXCEPT !.height = RSub(imgH, a2.y),
                              !.width = RMul(RSub(imgH, a2.y), targetRatio)]
              ELSE a2
    IN  a3

ResizeArea(h, cs, deltaX, deltaY, imgW, imgH, ratio) ==
    LET newArea == FreeResizeArea(h, cs, deltaX, deltaY, imgW, imgH)
    IN  IF Truthy(ratio) THEN AspectConstrain(h, newArea, ratio, imgW, imgH)
        ELSE newArea

\* No export yet; an export records the output canvas and the rotated
\* intermediate canvas (<<0, 0>>: none was made, rotation was 0).
NoDownload == [width |-> 0, height |-> 0, rotatedWidth |-> 0,
               rotatedHeight |-> 0, rotation |-> 0]

\* State after construction (the useState initial values).
InitialArea == Area(R(0), R(0), R(100), R(100))

CropIdleInit ==
    /\ originalImage = NoImage
    /\ selectedPreset = "free"
    /\ cropArea = InitialArea
    /\ rotation = 0
    /\ isDragging = FALSE
    /\ isResizing = None
    /\ dragStart = [x |-> 0, y |-> 0]
    /\ cropStart = Area(R(0), R(0), R(0), R(0))
    /\ displayScale = <<1, 10>>
    /\ pointerHeld = FALSE
    /\ gestures = 0
    /\ download = NoDownload
    /\ cropError = None

\* handleFileSelect, the image decoding: setOriginalImage(image) and the two
\* effects on [originalImage] that the next render runs (display scale and
\* initial crop area).  The upload section is rendered only without an image.
handleFileSelect(img) ==
    /\ originalImage = NoImage
    /\ originalImage' = img
    /\ rotation' = 0
    /\ displayScale' = updateScale(img)
    /\ cropArea' = InitialCropArea(img, PresetRatio(selectedPreset))
    /\ UNCHANGED <<selectedPreset, isDragging, isResizing, dragStart, cropStart,
                   pointerHeld, gestures>>

\* handlePresetChange and, when selectedPreset.ratio changed, the effect on
\* [originalImage, selectedPreset.ratio], which runs after it and wins.  The
\* preset buttons are rendered only with an image, outside the crop wrapper
\* (the pointer leaving the wrapper ends a gesture).
handlePresetChange(preset) ==
    /\ originalImage # NoImage
    /\ ~isDragging /\ isResizing = None
    /\ selectedPreset' = preset
    /\ cropArea' =
         IF PresetRatio(preset) # PresetRatio(selectedPreset)
         THEN InitialCropArea(originalImage, PresetRatio(preset))
         ELSE IF Truthy(PresetRatio(preset))
              THEN PresetCropArea(originalImage, cropArea, PresetRatio(preset))
              ELSE cropArea
    /\ UNCHANGED <<originalImage, rotation, isDragging, isResizing, dragStart,
                   cropStart, displayScale, pointerHeld, gestures>>

\* handleMouseDown(e, handle): handle = None is a press on the body.  The
\* crop selection is rendered only with an image.
handleMouseDown(handle, cx, cy) ==
    /\ originalImage # NoImage
    /\ gestures < MaxGestures
    /\ gestures' = gestures + 1
    /\ pointerHeld' = TRUE
    /\ IF handle # None
       THEN isResizing' = handle /\ UNCHANGED isDragging
       ELSE isDragging' = TRUE /\ UNCHANGED isResizing
    /\ dragStart' = [x |-> cx, y |-> cy]
    /\ cropStart' = cropArea
    /\ UNCHANGED <<originalImage, selectedPreset, cropArea, rotation, displayScale>>

\* Faulty variant of MovedArea: the drag branch starts from the current
\* rectangle, not from the rectangle at pointer-down.
MovedArea_Incremental(cx, cy) ==
    LET deltaX == RDiv(R(cx - dragStart.x), displayScale)
        deltaY == RDiv(R(cy - dragStart.y), displayScale)
        imgW == R(originalImage[1])
        imgH == R(originalImage[2])
    IN  IF isDragging
        THEN DragArea(cropArea, deltaX, deltaY, imgW, imgH)
        ELSE ResizeArea(isResizing, cropStart, deltaX, deltaY, imgW, imgH,
                        PresetRatio(selectedPreset))

\* The cropArea handleMouseMove sets for a pointer at client (cx, cy).
MovedArea(cx, cy) ==
    LET deltaX == RDiv(R(cx - dragStart.x), displayScale)
        deltaY == RDiv(R(cy - dragStart.y), displayScale)
        imgW == R(originalImage[1])
        imgH == R(originalImage[2])
    IN  IF isDragging
        THEN DragArea(cropStart, deltaX, deltaY, imgW, imgH)
        ELSE ResizeArea(isResizing, cropStart, deltaX, deltaY, imgW, imgH,
                        PresetRatio(selectedPreset))

handleMouseMove(cx, cy) ==
    /\ originalImage # NoImage
    /\ cropArea' = IF ~isDragging /\ isResizing = None THEN cropArea
                   ELSE MovedArea(cx, cy)
    /\ UNCHANGED <<originalImage, selectedPreset, rotation, isDragging,
                   isResizing, dragStart, cropStart, displayScale, pointerHeld,
                   gestures>>

\* Faulty variant of handleMouseUp: the drag flag is cleared, the resize
\* handle is not.
handleMouseUp_KeepsResizing ==
    /\ originalImage # NoImage
    /\ isDragging' = FALSE
    /\ pointerHeld' = FALSE
    /\ UNCHANGED <<originalImage, selectedPreset, cropArea, rotation, isResizing,
                   dragStart, cropStart, displayScale, gestures>>

\* handleMouseUp: onMouseUp and onMouseLeave of the crop wrapper; either
\* way no button is held over the wrapper afterwards.
handleMouseUp ==
    /\ originalImage # NoImage
    /\ isDragging' = FALSE
    /\ isResizing' = None
    /\ pointerHeld' = FALSE
    /\ UNCHANGED <<originalImage, selectedPreset, cropArea, rotation, dragStart,
                   cropStart, displayScale, gestures>>

\* JavaScript's %: the remainder takes the sign of the dividend.
JsRemainder(a, n) == IF a >= 0 THEN a % n ELSE -((-a) % n)

\* Faulty variants of handleRotate: the accumulator is not reduced; the
\* rectangle is turned with the image.
handleRotate_Unreduced(degrees) ==
    /\ originalImage # NoImage
    /\ ~isDragging /\ isResizing = None
    /\ rotation' = rotation + degrees
    /\ UNCHANGED <<originalImage, selectedPreset, cropArea, isDragging,
                   isResizing, dragStart, cropStart, displayScale, pointerHeld,
                   gestures>>

handleRotate_TurnsRectangle(degrees) ==
    /\ originalImage # NoImage
    /\ ~isDragging /\ isResizing = None
    /\ rotation' = JsRemainder(rotation + degrees, 360)
    /\ cropArea' = Area(cropArea.y, cropArea.x, cropArea.height, cropArea.width)
    /\ UNCHANGED <<originalImage, selectedPreset, isDragging, isResizing,
                   dragStart, cropStart, displayScale, pointerHeld, gestures>>

\* handleRotate(degrees): setRotation((prev + degrees) % 360).  The rotate
\* buttons are rendered with an image, outside the crop wrapper.
handleRotate(degrees) ==
    /\ originalImage # NoImage
    /\ ~isDragging /\ isResizing = None
    /\ rotation' = JsRemainder(rotation + degrees, 360)
    /\ UNCHANGED <<originalImage, selectedPreset, cropArea, isDragging,
                   isResizing, dragStart, cropStart, displayScale, pointerHeld,
                   gestures>>

\* The rotated intermediate canvas of handleCropAndDownload.
RotatedCanvas(img, rot) ==
    IF rot = 0 THEN <<0, 0>>
    ELSE IF rot \in {90, 270, -90, -270}
         THEN <<img[2], img[1]>>
         ELSE <<img[1], img[2]>>

\* handleCropAndDownload: the output canvas is Math.round(cropArea.width) x
\* Math.round(cropArea.height); with a rotation the crop region is read from
\* the rotated canvas, at the rectangle's coordinates.
handleCropAndDownload ==
    /\ originalImage # NoImage
    /\ ~isDragging /\ isResizing = None
    /\ download' = [width |-> Round(cropArea.width),
                    height |-> Round(cropArea.height),
                    rotatedWidth |-> RotatedCanvas(originalImage, rotation)[1],
                    rotatedHeight |-> RotatedCanvas(originalImage, rotation)[2],
                    rotation |-> rotation]
    /\ UNCHANGED cropVars

\* handleReset ("Choose a different image"; the button is outside the crop
\* wrapper, like the preset buttons).
handleReset ==
    /\ originalImage # NoImage
    /\ ~isDragging /\ isResizing = None
    /\ originalImage' = NoImage
    /\ cropArea' = InitialArea
    /\ rotation' = 0
    /\ selectedPreset' = "free"
    /\ UNCHANGED <<isDragging, isResizing, dragStart, cropStart, displayScale,
                   pointerHeld, gestures>>

\* The render conditions of the page.  isProcessing is false between the
\* steps of the model (handleFileSelect's finally clause), and imageUrl is
\* set with the image.
UploadSectionRendered == originalImage = NoImage /\ cropError = None
ErrorMessageRendered == ~UploadSectionRendered /\ cropError # None
ResetButtonRendered == ~UploadSectionRendered /\ originalImage # NoImage

\* handleFileSelect, loadImage rejecting (img.onerror): the catch clause.
\* FileUpload is part of the upload section.
handleFileSelectFails ==
    /\ UploadSectionRendered
    /\ cropError' = "Failed to load image"
    /\ rotation' = 0
    /\ UNCHANGED <<originalImage, selectedPreset, cropArea, isDragging,
                   isResizing, dragStart, cropStart, displayScale, pointerHeld,
                   gestures>>

-----------------------------------------------------------------------------
(* Target-size compressor: compressToTargetSize in pages/Home.tsx           *)

\* Qualities are counted in units of 1 / QualityDen, in which 0.1, 0.95 and
\* the eight midpoints of the search are whole numbers:
\* 0.95 - 0.1 = 17 * 256 / 5120.
QualityDen == 5120
minQuality == 512       \* 0.1
maxQuality == 4864      \* 0.95
Iterations == 8

\* An unconstrained encoder delivers sizes 1 .. MaxBlobSize; byte budgets
\* range over 0 .. MaxBlobSize.
MaxBlobSize == 3
\* Monotone encoders: two knees on the quality grid, at most this far apart.
MaxKneeGap == 1

NoBlob == [quality |-> -1, size |-> -1]
NoQuality == -1
EncodeFailed == -1

Blob(q, size) == [quality |-> q, size |-> size]

\* The grid the eight halvings resolve: GridQuality(0) = minQuality,
\* GridQuality(256) = maxQuality.
GridSteps == 256
GridQuality(k) == minQuality + k * ((maxQuality - minQuality) \div GridSteps)

\* The size a monotone encoder with knees k1 <= k2 (grid indices) produces at
\* quality q: 1 below the first knee, 2 from it on, 3 from the second on.
MonotoneSize(enc, q) ==
    1 + (IF q >= GridQuality(enc.k1) THEN 1 ELSE 0)
      + (IF q >= GridQuality(enc.k2) THEN 1 ELSE 0)

\* What canvas.toBlob may deliver at quality q: a blob size, or null
\* (EncodeFailed).  An "any" encoder is unconstrained: every size at every
\* quality, or a failure; a "monotone" one is a non-decreasing function of q;
\* a "flaky" one is a monotone one that may fail at any call.
EncoderOutputs(enc, q) ==
    IF enc.kind = "any" THEN (1 .. MaxBlobSize) \cup {EncodeFailed}
    ELSE IF enc.kind = "flaky" THEN {MonotoneSize(enc, q), EncodeFailed}
    ELSE {MonotoneSize(enc, q)}

AnyEncoder == [kind |-> "any", k1 |-> 0, k2 |-> 0]

SecondKnees(a) ==
    {c \in a .. GridSteps + 1 : c - a <= MaxKneeGap \/ c = GridSteps + 1}

MonotoneEncoders ==
    UNION {{[kind |-> "monotone", k1 |-> a, k2 |-> b] : b \in SecondKnees(a)} :
             a \in 0 .. GridSteps + 1}

Targets == 0 .. MaxBlobSize

\* Faulty variants of SearchStep: the first probe within the budget is kept
\* as the best; the comparison with the budget is inverted; the comparison
\* is strict.
SearchStep_FirstFit(lo, hi, best, blob, target) ==
    IF blob.size <= target
    THEN <<blob.quality, hi, IF best = NoBlob THEN blob ELSE best>>
    ELSE <<lo, blob.quality, best>>

SearchStep_Inverted(lo, hi, best, blob, target) ==
    IF blob.size >= target
    THEN <<blob.quality, hi, blob>>
    ELSE <<lo, blob.quality, best>>

SearchStep_Strict(lo, hi, best, blob, target) ==
    IF blob.size < target
    THEN <<blob.quality, hi, blob>>
    ELSE <<lo, blob.quality, best>>

\* One iteration of the search loop on the blob the encoder delivered at
\* mid: <<low, high, bestBlob>> after it.
SearchStep(lo, hi, best, blob, target) ==
    IF blob.size <= target
    THEN <<blob.quality, hi, blob>>
    ELSE <<lo, blob.quality, best>>

Mid(lo, hi) == (lo + hi) \div 2

SearchInit(enc, target) ==
    /\ encoder = enc
    /\ targetBytes = target
    /\ low = minQuality
    /\ high = maxQuality
    /\ bestBlob = NoBlob
    /\ iter = 0
    /\ pending = NoQuality
    /\ searchPc = "loop"
    /\ returned = NoBlob
    /\ issued = <<>>
    /\ probes = <<>>

\* Faulty variant of issueProbe: the next encode is started without
\* awaiting the one before (a parallel batch).
issueProbe_NoAwait ==
    /\ searchPc = "loop" /\ Len(issued) < Iterations
    /\ pending' = Mid(low, high)
    /\ issued' = Append(issued, Mid(low, high))
    /\ UNCHANGED <<encoder, targetBytes, low, high, bestBlob, iter, searchPc,
                   returned, probes>>

\* The loop body up to its await: canvasToBlob(mid) is called.
issueProbe ==
    /\ searchPc = "loop" /\ iter < Iterations /\ pending = NoQuality
    /\ pending' = Mid(low, high)
    /\ issued' = Append(issued, Mid(low, high))
    /\ UNCHANGED <<encoder, targetBytes, low, high, bestBlob, iter, searchPc,
                   returned, probes>>

\* The awaited encode settles: the promise resolves with a blob and the loop
\* body finishes, or it rejects and the search throws.
receiveProbe ==
    /\ searchPc = "loop" /\ pending # NoQuality
    /\ \E size \in EncoderOutputs(encoder, pending) :
         IF size = EncodeFailed
         THEN /\ searchPc' = "failed"
              /\ UNCHANGED <<low, high, bestBlob, iter, probes>>
         ELSE LET blob == Blob(pending, size)
                  next == SearchStep(low, high, bestBlob, blob, targetBytes)
              IN  /\ low' = next[1]
                  /\ high' = next[2]
                  /\ bestBlob' = next[3]
                  /\ iter' = iter + 1
                  /\ probes' = Append(probes, blob)
                  /\ UNCHANGED searchPc
    /\ pending' = NoQuality
    /\ UNCHANGED <<encoder, targetBytes, returned, issued>>

\* Faulty variant of returnBest: bestBlob is returned as it is, null or not.
returnBest_NoFallback ==
    /\ searchPc = "loop" /\ iter = Iterations /\ pending = NoQuality
    /\ returned' = bestBlob
    /\ searchPc' = "done"
    /\ UNCHANGED <<encoder, targetBytes, low, high, bestBlob, iter, pending,
                   issued, probes>>

\* return bestBlob || await canvasToBlob(minQuality): with a best blob the
\* search resolves at once, without one it encodes at minQuality.
returnBest ==
    /\ searchPc = "loop" /\ iter = Iterations /\ pending = NoQuality
    /\ IF bestBlob # NoBlob
       THEN /\ returned' = bestBlob
            /\ searchPc' = "done"
            /\ UNCHANGED <<pending, issued>>
       ELSE /\ pending' = minQuality
            /\ issued' = Append(issued, minQuality)
            /\ searchPc' = "fallback"
            /\ UNCHANGED returned
    /\ UNCHANGED <<encoder, targetBytes, low, high, bestBlob, iter, probes>>

receiveFallback ==
    /\ searchPc = "fallback" /\ pending # NoQuality
    /\ \E size \in EncoderOutputs(encoder, pending) :
         IF size = EncodeFailed
         THEN /\ searchPc' = "failed"
              /\ UNCHANGED <<returned, probes>>
         ELSE /\ returned' = Blob(pending, size)
              /\ probes' = Append(probes, Blob(pending, size))
              /\ searchPc' = "done"
    /\ pending' = NoQuality
    /\ UNCHANGED <<encoder, targetBytes, low, high, bestBlob, iter, issued>>

NoUrl == 0

\* The compress page after construction, with a file of the given type
\* loaded and no compressImage run yet.
PageInit(type) ==
    /\ fileType = type
    /\ compressionMode = "quality"
    /\ compressFormat = "jpeg"
    /\ mimeType = "none"
    /\ compressedBlob = NoBlob
    /\ compressedUrl = NoUrl
    /\ compressError = FALSE
    /\ isCompressing = FALSE
    /\ pagePc = "idle"
    /\ directEncodes = 0
    /\ urlsCreated = 0
    /\ runs = 0
    /\ inflight = {}
    /\ storedRun = 0

CompressIdle ==
    /\ PageInit("image/jpeg")
    /\ encoder = AnyEncoder
    /\ targetBytes = 0
    /\ low = minQuality
    /\ high = maxQuality
    /\ bestBlob = NoBlob
    /\ iter = 0
    /\ pending = NoQuality
    /\ searchPc = "idle"
    /\ returned = NoBlob
    /\ issued = <<>>
    /\ probes = <<>>

-----------------------------------------------------------------------------
(* Compress page: compressImage in pages/Home.tsx                           *)

\* compressImage runs explored.
MaxRuns == 2

FileTypes == {"image/png", "image/webp", "image/jpeg"}
CompressFormats == {"jpeg", "webp", "original"}
CompressionModes == {"quality", "target-size"}

\* Encoders of the page: monotone, and free to fail at any call.
PageEncoders ==
    {[kind |-> "flaky", k1 |-> a, k2 |-> GridSteps + 1] : a \in {0, 100}}

\* "Determine output format".
ResolveMimeType(format, type) ==
    IF format = "original"
    THEN IF type = "image/png" THEN "image/png"
         ELSE IF type = "image/webp" THEN "image/webp"
         ELSE "image/jpeg"
    ELSE IF format = "webp" THEN "image/webp" ELSE "image/jpeg"

\* quality / 100 for the slider's default of 80, in units of 1 / QualityDen.
DefaultQuality == 4096

\* compressToTargetSize is called: its locals are initialised.
SearchCalled(target) ==
    /\ targetBytes' = target
    /\ low' = minQuality
    /\ high' = maxQuality
    /\ bestBlob' = NoBlob
    /\ iter' = 0
    /\ pending' = NoQuality
    /\ searchPc' = "loop"
    /\ returned' = NoBlob
    /\ issued' = <<>>
    /\ probes' = <<>>
    /\ UNCHANGED encoder

\* compressToTargetSize is not called in this run.
SearchNotCalled ==
    /\ targetBytes' = 0
    /\ low' = minQuality
    /\ high' = maxQuality
    /\ bestBlob' = NoBlob
    /\ iter' = 0
    /\ pending' = NoQuality
    /\ searchPc' = "idle"
    /\ returned' = NoBlob
    /\ issued' = <<>>
    /\ probes' = <<>>
    /\ UNCHANGED encoder

\* Faulty variant of compressStart: the compression mode is looked at before
\* the format.
compressStart_ModeFirst(mode, format, target) ==
    /\ pagePc = "idle" /\ runs < MaxRuns
    /\ runs' = runs + 1
    /\ compressionMode' = mode
    /\ compressFormat' = format
    /\ isCompressing' = TRUE
    /\ mimeType' = ResolveMimeType(format, fileType)
    /\ IF mode = "target-size"
       THEN pagePc' = "searching" /\ directEncodes' = 0 /\ SearchCalled(target)
       ELSE pagePc' = "encoding" /\ directEncodes' = 1 /\ SearchNotCalled
    /\ UNCHANGED <<fileType, compressedBlob, compressedUrl, compressError,
                   urlsCreated>>

\* A setting (mode, format, target size) is chosen and the effect on the
\* settings calls compressImage, which runs up to its first await: the
\* single PNG encode, the target-size search, or the single encode at the
\* slider's quality.
compressStart(mode, format, target) ==
    /\ pagePc = "idle" /\ runs < MaxRuns
    /\ runs' = runs + 1
    /\ compressionMode' = mode
    /\ compressFormat' = format
    /\ isCompressing' = TRUE
    /\ mimeType' = ResolveMimeType(format, fileType)
    /\ IF ResolveMimeType(format, fileType) = "image/png"
       THEN pagePc' = "encoding" /\ directEncodes' = 1 /\ SearchNotCalled
       ELSE IF mode = "target-size"
            THEN pagePc' = "searching" /\ directEncodes' = 0 /\ SearchCalled(target)
            ELSE pagePc' = "encoding" /\ directEncodes' = 1 /\ SearchNotCalled
    /\ UNCHANGED <<fileType, compressedBlob, compressedUrl, compressError,
                   urlsCreated>>

\* The rest of the try block: the blob is stored under a new preview URL;
\* finally clears the flag.
Store(blob) ==
    /\ compressedBlob' = blob
    /\ urlsCreated' = urlsCreated + 1
    /\ compressedUrl' = urlsCreated + 1
    /\ isCompressing' = FALSE
    /\ pagePc' = "idle"
    /\ UNCHANGED <<fileType, compressionMode, compressFormat, mimeType,
                   compressError, directEncodes, runs>>

\* Faulty variant of Catch: the stored output is dropped with the failure.
Catch_DropsOutput ==
    /\ compressError' = TRUE
    /\ compressedBlob' = NoBlob
    /\ compressedUrl' = NoUrl
    /\ isCompressing' = FALSE
    /\ pagePc' = "idle"
    /\ UNCHANGED <<fileType, compressionMode, compressFormat, mimeType,
                   directEncodes, urlsCreated, runs>>

\* The catch block: setError('Failed to compress image'); finally clears the
\* flag.
Catch ==
    /\ compressError' = TRUE
    /\ isCompressing' = FALSE
    /\ pagePc' = "idle"
    /\ UNCHANGED <<fileType, compressionMode, compressFormat, mimeType,
                   compressedBlob, compressedUrl, directEncodes, urlsCreated,
                   runs>>

\* What compressImage does when a step of the search ends it: the promise
\* resolved (store), was rejected (catch), or is still pending.
Settle ==
    IF searchPc' = "done" THEN Store(returned')
    ELSE IF searchPc' = "failed" THEN Catch
    ELSE UNCHANGED pageVars

\* The single canvas.toBlob of the PNG and the quality branches settles.
directEncodeSettles ==
    /\ pagePc = "encoding"
    /\ LET q == IF mimeType = "image/png" THEN NoQuality ELSE DefaultQuality
       IN  \E size \in EncoderOutputs(encoder, q) :
              IF size = EncodeFailed THEN Catch ELSE Store(Blob(q, size))
    /\ UNCHANGED compressVars

\* The steps of the search compressImage awaits.
pageIssueProbe == pagePc = "searching" /\ issueProbe /\ Settle
pageReceiveProbe == pagePc = "searching" /\ receiveProbe /\ Settle
pageReturnBest == pagePc = "searching" /\ returnBest /\ Settle
pageReceiveFallback == pagePc = "searching" /\ receiveFallback /\ Settle

\* ---- Calls of compressImage that overlap: the effect starts a call on
\* every change of the settings and cancels none. ----

\* The encodes of one call: one for a direct encode (quality mode, PNG),
\* the probes of the search and, without a fitting probe, the fallback.
EncodesOf(mode) ==
    IF mode = "target-size" THEN {Iterations, Iterations + 1} ELSE {1}

\* The effect on [originalImage, quality, targetSizeKB, outputFormat,
\* compressionMode]: compressImage() with the new settings,
\* setIsCompressing(true) and the first encode.
settingsChanged(mode, encodes) ==
    /\ runs < MaxRuns
    /\ runs' = runs + 1
    /\ compressionMode' = mode
    /\ isCompressing' = TRUE
    /\ inflight' = inflight \cup {[run |-> runs + 1, left |-> encodes]}
    /\ UNCHANGED <<fileType, compressFormat, mimeType, compressedBlob,
                   compressedUrl, compressError, pagePc, directEncodes,
                   urlsCreated, storedRun>>

\* An encode of a call settles and the call awaits its next one.
overlapEncodeSettles(r) ==
    /\ r \in inflight /\ r.left > 1
    /\ inflight' = (inflight \ {r}) \cup {[r EXCEPT !.left = r.left - 1]}
    /\ UNCHANGED <<pageVars, storedRun>>

\* The last encode of a call settles: setCompressedBlob, setCompressedUrl
\* and, in the finally clause, setIsCompressing(false).
overlapRunStores(r) ==
    /\ r \in inflight /\ r.left = 1
    /\ inflight' = inflight \ {r}
    /\ storedRun' = r.run
    /\ isCompressing' = FALSE
    /\ UNCHANGED <<fileType, compressionMode, compressFormat, mimeType,
                   compressedBlob, compressedUrl, compressError, pagePc,
                   directEncodes, urlsCreated, runs>>

-----------------------------------------------------------------------------
(* Fit page: App.tsx and processImage / getCanvasDimensions, processor.ts   *)

\* Sources up to MaxFitSide on each side, and a few camera-sized ones.
MaxFitSide == 20
FitSamples == {<<4000, 3000>>, <<3000, 4000>>, <<1080, 1080>>, <<2480, 3508>>,
               <<3508, 2480>>, <<3509, 2480>>, <<2481, 3508>>, <<1079, 1081>>,
               <<7, 4999>>, <<4999, 7>>}
FitImages == ((1 .. MaxFitSide) \X (1 .. MaxFitSide)) \cup FitSamples
\* Image elements without pixels: naturalWidth or naturalHeight is 0 (an
\* element that holds no decoded bitmap reports 0 x 0).
EmptyImages == {<<0, 0>>} \cup ({0} \X (1 .. MaxFitSide)) \cup ((1 .. MaxFitSide) \X {0})

\* originalImage = null; an image element without pixels is 0 x 0, not null.
NullImage == <<-1, -1>>
NoResult == [canvasWidth |-> 0, canvasHeight |-> 0, scaledWidth |-> 0,
             scaledHeight |-> 0, offsetX |-> 0, offsetY |-> 0,
             orientation |-> None]
AutoOrientation == "auto"

\* constants.ts
WhatsAppWidth == 1080
WhatsAppHeight == 1080
A4PortraitWidth == 2480
A4PortraitHeight == 3508

detectOrientation(width, height) ==
    IF width > height THEN "landscape" ELSE "portrait"

getCanvasDimensions(format, orientation) ==
    IF format = "whatsapp-dp" THEN <<WhatsAppWidth, WhatsAppHeight>>
    ELSE IF orientation = "landscape" THEN <<A4PortraitHeight, A4PortraitWidth>>
    ELSE <<A4PortraitWidth, A4PortraitHeight>>

\* Faulty variant of FitScale: the larger factor ("cover") instead of the
\* smaller ("contain").
FitScale_Cover(scaleX, scaleY) == RMax(scaleX, scaleY)

\* Math.min(scaleX, scaleY)
FitScale(scaleX, scaleY) == RMin(scaleX, scaleY)

\* JavaScript's a / b for a > 0 and b >= 0: a / 0 is Infinity, <<1, 0>>.
Infinity == <<1, 0>>
JsQuotient(a, b) == IF b = 0 THEN Infinity ELSE <<a, b>>
\* NaN in a geometry field: a value no rounded length or offset takes.
NaN == -999999
\* Math.round(n * scale).  Math.min gives Infinity only when both factors
\* are Infinity, that is when both sides are 0, and 0 * Infinity is NaN.
RoundTimes(n, scale) ==
    IF scale = Infinity THEN NaN ELSE Round(RMul(R(n), scale))
\* Math.round((canvasSide - scaled) / 2)
RoundHalfMargin(canvasSide, scaled) ==
    IF scaled = NaN THEN NaN ELSE Round(<<canvasSide - scaled, 2>>)

\* processImage's geometry; requested = AutoOrientation when the caller
\* passes no orientation.
processImage(image, format, requested) ==
    LET originalWidth == image[1]
        originalHeight == image[2]
        finalOrientation == IF requested = AutoOrientation
                            THEN detectOrientation(originalWidth, originalHeight)
                            ELSE requested
        canvasDims == getCanvasDimensions(format, finalOrientation)
        scaleX == JsQuotient(canvasDims[1], originalWidth)
        scaleY == JsQuotient(canvasDims[2], originalHeight)
        scale == FitScale(scaleX, scaleY)
        scaledWidth == RoundTimes(originalWidth, scale)
        scaledHeight == RoundTimes(originalHeight, scale)
        offsetX == RoundHalfMargin(canvasDims[1], scaledWidth)
        offsetY == RoundHalfMargin(canvasDims[2], scaledHeight)
    IN  [canvasWidth |-> canvasDims[1], canvasHeight |-> canvasDims[2],
         scaledWidth |-> scaledWidth, scaledHeight |-> scaledHeight,
         offsetX |-> offsetX, offsetY |-> offsetY,
         orientation |-> finalOrientation]

FitIdle ==
    /\ fitImage = NullImage
    /\ outputFormat = "whatsapp-dp"
    /\ fitResult = NoResult

\* The format buttons of the upload section: setOutputFormat.
setOutputFormat(format) ==
    /\ fitResult = NoResult
    /\ outputFormat' = format
    /\ UNCHANGED <<fitImage, fitResult>>

\* App.handleFileSelect, the image decoded.
fitFileSelect(image) ==
    /\ fitResult = NoResult
    /\ fitImage' = image
    /\ fitResult' = processImage(image, outputFormat, AutoOrientation)
    /\ UNCHANGED outputFormat

handleOrientationChange(orientation) ==
    /\ fitImage # NullImage
    /\ fitResult' = processImage(fitImage, outputFormat, orientation)
    /\ UNCHANGED <<fitImage, outputFormat>>

handleOutputFormatChange(format) ==
    /\ fitImage # NullImage
    /\ outputFormat' = format
    /\ fitResult' = processImage(fitImage, format, AutoOrientation)
    /\ UNCHANGED fitImage

fitReset ==
    /\ fitImage # NullImage
    /\ fitImage' = NullImage
    /\ fitResult' = NoResult
    /\ UNCHANGED outputFormat

-----------------------------------------------------------------------------
(* Step-down resampler: resizeImage in pages/ResizeImage.tsx                *)

MaxResizeSide == 9
NoCanvas == <<0, 0>>

Max(a, b) == IF a > b THEN a ELSE b

\* No timer, no toBlob call in flight, no preview.
ResizeAsyncIdle ==
    /\ resizeTimeout = NoCanvas
    /\ timerLeft = 0
    /\ sinceEdit = 0
    /\ encoding = 0
    /\ previewUrlRef = NoUrl
    /\ previewUrl = NoUrl
    /\ liveUrls = {}
    /\ previewUrlsMade = 0
    /\ pageIsResizing = FALSE
    /\ resamples = 0
    /\ lastResample = NoCanvas
    /\ edits = 0

\* useState(100), useRef(null), useState(null)
ResizePageIdle ==
    /\ percentage = 100
    /\ resizedCanvasRef = NoCanvas
    /\ resizeError = None
    /\ ResizeAsyncIdle

ResizeIdle ==
    /\ ResizePageIdle
    /\ resizeSource = NoCanvas
    /\ resizeTarget = NoCanvas
    /\ currentCanvas = NoCanvas
    /\ finalCanvas = NoCanvas
    /\ resizePc = "idle"

\* resizeImage(source, targetW, targetH) is entered: the source is drawn on
\* currentCanvas.
ResizeEntered(source, target) ==
    /\ resizeSource = source
    /\ resizeTarget = target
    /\ currentCanvas = source
    /\ finalCanvas = NoCanvas
    /\ resizePc = "loop"

\* The while condition.
NeedsStepDown(canvas, target) ==
    canvas[1] > target[1] * 2 \/ canvas[2] > target[2] * 2

\* Faulty variant of stepDown: each pass halves the source, not the canvas
\* of the pass before.
stepDown_FromSource ==
    /\ resizePc = "loop"
    /\ NeedsStepDown(currentCanvas, resizeTarget)
    /\ LET halfW == Max(resizeSource[1] \div 2, resizeTarget[1])
           halfH == Max(resizeSource[2] \div 2, resizeTarget[2])
       IN  currentCanvas' = <<halfW, halfH>>
    /\ UNCHANGED <<resizeSource, resizeTarget, finalCanvas, resizePc>>

\* Faulty variant of stepDown: each pass halves both sides, without the
\* lower limit of the target.
stepDown_BelowTarget ==
    /\ resizePc = "loop"
    /\ NeedsStepDown(currentCanvas, resizeTarget)
    /\ currentCanvas' = <<currentCanvas[1] \div 2, currentCanvas[2] \div 2>>
    /\ UNCHANGED <<resizeSource, resizeTarget, finalCanvas, resizePc>>

\* Faulty variant of stepDown: each pass quarters the sides.
stepDown_Quarter ==
    /\ resizePc = "loop"
    /\ NeedsStepDown(currentCanvas, resizeTarget)
    /\ LET halfW == Max(currentCanvas[1] \div 4, resizeTarget[1])
           halfH == Max(currentCanvas[2] \div 4, resizeTarget[2])
       IN  currentCanvas' = <<halfW, halfH>>
    /\ UNCHANGED <<resizeSource, resizeTarget, finalCanvas, resizePc>>

\* One pass of the step-down loop.
stepDown ==
    /\ resizePc = "loop"
    /\ NeedsStepDown(currentCanvas, resizeTarget)
    /\ LET halfW == Max(currentCanvas[1] \div 2, resizeTarget[1])
           halfH == Max(currentCanvas[2] \div 2, resizeTarget[2])
       IN  currentCanvas' = <<halfW, halfH>>
    /\ UNCHANGED <<resizeSource, resizeTarget, finalCanvas, resizePc>>

\* "Final resize to exact target" and return.
finalResize ==
    /\ resizePc = "loop"
    /\ ~NeedsStepDown(currentCanvas, resizeTarget)
    /\ finalCanvas' = resizeTarget
    /\ resizePc' = "done"
    /\ UNCHANGED <<resizeSource, resizeTarget, currentCanvas>>

\* The percentages the page offers or the custom field takes: the buttons
\* of PERCENTAGE_OPTIONS, small typed values, and a typed negative one
\* (parseInt(value) || 100 keeps every integer but 0).
Percentages == {-50, 1, 10, 25, 50, 100, 200}

\* getEffectiveDimensions in 'percentage' mode.
getEffectiveDimensions(source, pct) ==
    <<Round(<<source[1] * pct, 100>>), Round(<<source[2] * pct, 100>>)>>

\* handlePercentageChange and the effect on [originalImage,
\* getEffectiveDimensions, processResize]: the effect calls processResize
\* only for width > 0 and height > 0, and processResize returns at once
\* otherwise; the 300 ms debounce is folded into the step, the call of
\* resizeImage is entered.
handlePercentageChange(pct) ==
    /\ resizeSource # NoCanvas
    /\ resizePc = "idle"
    /\ pct # percentage
    /\ percentage' = pct
    /\ LET dims == getEffectiveDimensions(resizeSource, pct)
       IN  IF dims[1] > 0 /\ dims[2] > 0
           THEN /\ resizeTarget' = dims
                /\ currentCanvas' = resizeSource
                /\ finalCanvas' = NoCanvas
                /\ resizePc' = "loop"
           ELSE UNCHANGED <<resizeTarget, currentCanvas, finalCanvas, resizePc>>
    /\ UNCHANGED <<resizeSource, resizedCanvasRef, resizeError>>

\* The timeout callback after resizeImage returned:
\* resizedCanvasRef.current = canvas.
storeResizedCanvas ==
    /\ resizePc = "done"
    /\ resizedCanvasRef' = finalCanvas
    /\ resizePc' = "idle"
    /\ UNCHANGED <<resizeSource, resizeTarget, currentCanvas, finalCanvas,
                   percentage, resizeError>>

\* ---- The page with its debounce timer and its toBlob callbacks ----

\* File selections and dimension edits of one exploration.
MaxEdits == 3
\* The 300 ms of the debounce, in time units of 150 ms.
DebounceDelay == 2
AsyncSources == {<<2, 1>>, <<4, 4>>}

\* processResize(width, height): nothing for a side <= 0; otherwise
\* setIsResizing(true), clearTimeout of the pending timer and a new timer.
processResize(dims) ==
    IF dims[1] > 0 /\ dims[2] > 0
    THEN /\ pageIsResizing' = TRUE
         /\ resizeTimeout' = dims
         /\ timerLeft' = DebounceDelay
    ELSE UNCHANGED <<pageIsResizing, resizeTimeout, timerLeft>>

\* handleFileSelect, the image decoded, and the effect on [originalImage,
\* getEffectiveDimensions, processResize] of the next render: the target
\* is the natural size.
resizeFileSelect(source) ==
    /\ resizeSource = NoCanvas
    /\ resizeError = None
    /\ edits < MaxEdits
    /\ edits' = edits + 1
    /\ resizeSource' = source
    /\ percentage' = 100
    /\ previewUrl' = NoUrl
    /\ resizedCanvasRef' = NoCanvas
    /\ processResize(source)
    /\ sinceEdit' = 0
    /\ resamples' = 0
    /\ UNCHANGED <<resizeTarget, currentCanvas, finalCanvas, resizePc, resizeError,
                   encoding, previewUrlRef, liveUrls, previewUrlsMade, lastResample>>

\* handlePercentageChange and the effect of the next render.
percentageEdited(pct) ==
    /\ resizeSource # NoCanvas
    /\ pct # percentage
    /\ edits < MaxEdits
    /\ edits' = edits + 1
    /\ percentage' = pct
    /\ processResize(getEffectiveDimensions(resizeSource, pct))
    /\ sinceEdit' = 0
    /\ resamples' = 0
    /\ UNCHANGED <<resizeVars, resizedCanvasRef, resizeError, encoding,
                   previewUrlRef, previewUrl, liveUrls, previewUrlsMade,
                   lastResample>>

\* One time unit passes.
tick ==
    /\ sinceEdit < DebounceDelay \/ (resizeTimeout # NoCanvas /\ timerLeft > 0)
    /\ sinceEdit' = IF sinceEdit < DebounceDelay THEN sinceEdit + 1 ELSE sinceEdit
    /\ timerLeft' = IF timerLeft > 0 THEN timerLeft - 1 ELSE 0
    /\ UNCHANGED <<resizeVars, resizePageVars, resizeTimeout, encoding,
                   previewUrlRef, previewUrl, liveUrls, previewUrlsMade,
                   pageIsResizing, resamples, lastResample, edits>>

\* The timeout callback of processResize: resizeImage runs (it returns a
\* canvas of the target's size), the canvas is stored, the URL in
\* previewUrlRef is revoked and toBlob is called.
timerFires ==
    /\ resizeTimeout # NoCanvas
    /\ timerLeft = 0
    /\ resizedCanvasRef' = resizeTimeout
    /\ lastResample' = resizeTimeout
    /\ resamples' = resamples + 1
    /\ liveUrls' = liveUrls \ {previewUrlRef}
    /\ encoding' = encoding + 1
    /\ resizeTimeout' = NoCanvas
    /\ UNCHANGED <<resizeVars, percentage, resizeError, timerLeft, sinceEdit,
                   previewUrlRef, previewUrl, previewUrlsMade, pageIsResizing,
                   edits>>

\* A callback of toBlob: createObjectURL, previewUrlRef.current = url,
\* setPreviewUrl(url), setIsResizing(false).
toBlobCallback ==
    /\ encoding > 0
    /\ encoding' = encoding - 1
    /\ previewUrlsMade' = previewUrlsMade + 1
    /\ liveUrls' = liveUrls \cup {previewUrlsMade + 1}
    /\ previewUrlRef' = previewUrlsMade + 1
    /\ previewUrl' = previewUrlsMade + 1
    /\ pageIsResizing' = FALSE
    /\ UNCHANGED <<resizeVars, resizePageVars, resizeTimeout, timerLeft,
                   sinceEdit, resamples, lastResample, edits>>

\* handleReset of the resize page: the URL in previewUrlRef is revoked, the
\* pending timer cleared; callbacks of toBlob in flight still run.
resizeReset ==
    /\ resizeSource # NoCanvas
    /\ liveUrls' = liveUrls \ {previewUrlRef}
    /\ resizeTimeout' = NoCanvas
    /\ timerLeft' = 0
    /\ resizeSource' = NoCanvas
    /\ previewUrl' = NoUrl
    /\ previewUrlRef' = NoUrl
    /\ resizedCanvasRef' = NoCanvas
    /\ resizeError' = None
    /\ percentage' = 100
    /\ UNCHANGED <<resizeTarget, currentCanvas, finalCanvas, resizePc, sinceEdit,
                   encoding, previewUrlsMade, pageIsResizing, resamples,
                   lastResample, edits>>

-----------------------------------------------------------------------------
(* Specifications, one per component: the components share no state.       *)

vars == <<cropVars, exportVars, loadVars, compressVars, pageVars, fitVars, resizeVars,
          resizePageVars, asyncVars, overlapVars>>

CropOnly == UNCHANGED <<loadVars, exportVars, compressVars, pageVars, fitVars, resizeVars,
                        resizePageVars, asyncVars, overlapVars>>
CompressOnly == UNCHANGED <<loadVars, cropVars, exportVars, pageVars, fitVars, resizeVars,
                            resizePageVars, asyncVars, overlapVars>>
FitOnly == UNCHANGED <<loadVars, cropVars, exportVars, compressVars, pageVars, resizeVars,
                       resizePageVars, asyncVars, overlapVars>>
ResizeOnly == UNCHANGED <<loadVars, cropVars, exportVars, compressVars, pageVars, fitVars,
                          resizePageVars, asyncVars, overlapVars>>
CropPageOnly == UNCHANGED <<exportVars, compressVars, pageVars, fitVars, resizeVars,
                            resizePageVars, asyncVars, overlapVars>>
ResizePageOnly == UNCHANGED <<loadVars, cropVars, exportVars, compressVars, pageVars, fitVars,
                              asyncVars, overlapVars>>
ResizeAsyncOnly == UNCHANGED <<loadVars, cropVars, exportVars, compressVars, pageVars, fitVars,
                               overlapVars>>
OverlapOnly == UNCHANGED <<loadVars, cropVars, exportVars, compressVars, fitVars, resizeVars,
                           resizePageVars, asyncVars>>
ExportOnly == UNCHANGED <<loadVars, compressVars, pageVars, fitVars, resizeVars,
                          resizePageVars, asyncVars, overlapVars>>
PageOnly == UNCHANGED <<loadVars, cropVars, exportVars, fitVars, resizeVars,
                        resizePageVars, asyncVars, overlapVars>>

\* The crop page.
InitCrop == CropIdleInit /\ CompressIdle /\ FitIdle /\ ResizeIdle
NextCrop ==
    \/ \E img \in Images : handleFileSelect(img) /\ CropOnly
    \/ \E preset \in PresetNames : handlePresetChange(preset) /\ CropOnly
    \/ \E handle \in Handles \cup {None}, cx \in PointerXs, cy \in PointerYs :
          handleMouseDown(handle, cx, cy) /\ CropOnly
    \/ \E cx \in PointerXs, cy \in PointerYs : handleMouseMove(cx, cy) /\ CropOnly
    \/ handleMouseUp /\ CropOnly
    \/ handleReset /\ CropOnly
SpecCrop == InitCrop /\ [][NextCrop]_vars

\* The compress page: compressImage runs on one loaded file.
InitPage ==
    /\ \E type \in FileTypes : PageInit(type)
    /\ \E enc \in PageEncoders : encoder = enc
    /\ targetBytes = 0
    /\ low = minQuality
    /\ high = maxQuality
    /\ bestBlob = NoBlob
    /\ iter = 0
    /\ pending = NoQuality
    /\ searchPc = "idle"
    /\ returned = NoBlob
    /\ issued = <<>>
    /\ probes = <<>>
    /\ CropIdleInit /\ FitIdle /\ ResizeIdle
NextPage ==
    \/ \E mode \in CompressionModes, format \in CompressFormats, target \in Targets :
          compressStart(mode, format, target) /\ PageOnly
    \/ directEncodeSettles /\ PageOnly
    \/ pageIssueProbe /\ PageOnly
    \/ pageReceiveProbe /\ PageOnly
    \/ pageReturnBest /\ PageOnly
    \/ pageReceiveFallback /\ PageOnly
SpecPage == InitPage /\ [][NextPage]_vars

\* The compress page with an image, calls of compressImage overlapping.
RunRecords == [run : 1 .. MaxRuns + 1, left : 1 .. Iterations + 1]
NextOverlap ==
    \/ \E mode \in CompressionModes :
          \E encodes \in EncodesOf(mode) : settingsChanged(mode, encodes) /\ OverlapOnly
    \/ \E r \in RunRecords : overlapEncodeSettles(r) /\ OverlapOnly
    \/ \E r \in RunRecords : overlapRunStores(r) /\ OverlapOnly
SpecOverlap == InitCrop /\ [][NextOverlap]_vars

\* The crop page with its rotate and export buttons, on fewer sources and
\* presets; the exploration ends at the first export.
RotateImages == {<<200, 150>>, <<200, 200>>}
RotatePresets == {"free", "16:9"}
NotExported == download = NoDownload
NextRotate ==
    \/ \E img \in RotateImages : NotExported /\ handleFileSelect(img) /\ CropOnly
    \/ \E preset \in RotatePresets :
          NotExported /\ handlePresetChange(preset) /\ CropOnly
    \/ \E handle \in Handles \cup {None}, cx \in PointerXs, cy \in PointerYs :
          NotExported /\ handleMouseDown(handle, cx, cy) /\ CropOnly
    \/ \E cx \in PointerXs, cy \in PointerYs :
          NotExported /\ handleMouseMove(cx, cy) /\ CropOnly
    \/ NotExported /\ handleMouseUp /\ CropOnly
    \/ \E degrees \in {90, -90} : NotExported /\ handleRotate(degrees) /\ CropOnly
    \/ NotExported /\ handleCropAndDownload /\ ExportOnly
    \/ NotExported /\ handleReset /\ CropOnly
SpecRotate == InitCrop /\ [][NextRotate]_vars

\* One target-size search against an unconstrained encoder.
InitCompress ==
    /\ \E target \in Targets : SearchInit(AnyEncoder, target)
    /\ PageInit("image/jpeg")
    /\ CropIdleInit /\ FitIdle /\ ResizeIdle
NextCompress ==
    \/ issueProbe /\ CompressOnly
    \/ receiveProbe /\ CompressOnly
    \/ returnBest /\ CompressOnly
    \/ receiveFallback /\ CompressOnly
SpecCompress == InitCompress /\ [][NextCompress]_vars

\* One target-size search against a monotone encoder.
InitCompressMonotone ==
    /\ \E enc \in MonotoneEncoders, target \in Targets : SearchInit(enc, target)
    /\ PageInit("image/jpeg")
    /\ CropIdleInit /\ FitIdle /\ ResizeIdle
SpecCompressMonotone == InitCompressMonotone /\ [][NextCompress]_vars

\* The crop page with its error state: files that load and files that fail
\* to decode, presets, rotation, reset.
NextCropLoad ==
    \/ \E img \in Images :
          /\ UploadSectionRendered
          /\ handleFileSelect(img) /\ cropError' = None /\ CropPageOnly
    \/ handleFileSelectFails /\ CropPageOnly
    \/ \E preset \in PresetNames : handlePresetChange(preset) /\ CropOnly
    \/ \E degrees \in {-90, 90} : handleRotate(degrees) /\ CropOnly
    \/ ResetButtonRendered /\ handleReset /\ cropError' = None /\ CropPageOnly
SpecCropLoad == InitCrop /\ [][NextCropLoad]_vars

\* The fit page.
InitFit == FitIdle /\ CropIdleInit /\ CompressIdle /\ ResizeIdle
NextFit ==
    \/ \E format \in {"a4", "whatsapp-dp"} : setOutputFormat(format) /\ FitOnly
    \/ \E image \in FitImages : fitFileSelect(image) /\ FitOnly
    \/ \E orientation \in {"portrait", "landscape"} :
          handleOrientationChange(orientation) /\ FitOnly
    \/ \E format \in {"a4", "whatsapp-dp"} : handleOutputFormatChange(format) /\ FitOnly
    \/ fitReset /\ FitOnly
SpecFit == InitFit /\ [][NextFit]_vars

\* The fit page, processImage also called on image elements without pixels.
NextFitAnyImage ==
    \/ \E format \in {"a4", "whatsapp-dp"} : setOutputFormat(format) /\ FitOnly
    \/ \E image \in FitImages \cup EmptyImages : fitFileSelect(image) /\ FitOnly
    \/ \E orientation \in {"portrait", "landscape"} :
          handleOrientationChange(orientation) /\ FitOnly
    \/ \E format \in {"a4", "whatsapp-dp"} : handleOutputFormatChange(format) /\ FitOnly
    \/ fitReset /\ FitOnly
SpecFitAnyImage == InitFit /\ [][NextFitAnyImage]_vars

\* One call of resizeImage; a call that is running takes its next step.
InitResize ==
    /\ \E source \in (1 .. MaxResizeSide) \X (1 .. MaxResizeSide),
          target \in (1 .. MaxResizeSide) \X (1 .. MaxResizeSide) :
          ResizeEntered(source, target)
    /\ ResizePageIdle
    /\ CropIdleInit /\ CompressIdle /\ FitIdle
NextResize ==
    \/ stepDown /\ ResizeOnly
    \/ finalResize /\ ResizeOnly
SpecResize == InitResize /\ [][NextResize]_vars /\ WF_vars(NextResize)

\* The resize page with an image loaded: handleFileSelect set the target to
\* the natural size and the effect started the first resize.
InitResizePage ==
    /\ \E source \in (1 .. MaxResizeSide) \X (1 .. MaxResizeSide) :
          ResizeEntered(source, source)
    /\ ResizePageIdle
    /\ CropIdleInit /\ CompressIdle /\ FitIdle
NextResizePage ==
    \/ \E pct \in Percentages : handlePercentageChange(pct) /\ ResizePageOnly
    \/ stepDown /\ ResizeOnly
    \/ finalResize /\ ResizeOnly
    \/ storeResizedCanvas /\ ResizePageOnly
SpecResizePage == InitResizePage /\ [][NextResizePage]_vars /\ WF_vars(NextResizePage)

\* The resize page from its upload state, with time, the debounce timer and
\* the callbacks of toBlob as steps of their own.
NextResizeAsync ==
    \/ \E source \in AsyncSources : resizeFileSelect(source) /\ ResizeAsyncOnly
    \/ \E pct \in Percentages : percentageEdited(pct) /\ ResizeAsyncOnly
    \/ tick /\ ResizeAsyncOnly
    \/ timerFires /\ ResizeAsyncOnly
    \/ toBlobCallback /\ ResizeAsyncOnly
    \/ resizeReset /\ ResizeAsyncOnly
SpecResizeAsync ==
    /\ InitCrop
    /\ [][NextResizeAsync]_vars
    /\ WF_vars(tick /\ ResizeAsyncOnly)
    /\ WF_vars(timerFires /\ ResizeAsyncOnly)
    /\ WF_vars(toBlobCallback /\ ResizeAsyncOnly)

-----------------------------------------------------------------------------
(* Crop page: properties                                                    *)

ImageLoaded == originalImage # NoImage
ActiveRatio == PresetRatio(selectedPreset)

\* The interaction mode the two flags encode.
Mode ==
    CASE ~isDragging /\ isResizing = None -> [kind |-> "Idle", handle |-> None]
      [] isDragging /\ isResizing = None  -> [kind |-> "Dragging", handle |-> None]
      [] ~isDragging /\ isResizing # None -> [kind |-> "Resizing", handle |-> isResizing]
      [] OTHER -> [kind |-> "Both", handle |-> isResizing]

\* A pointer-move has acted in the current gesture.
MovedInGesture == ImageLoaded /\ cropArea # cropStart

Contained(a, img) ==
    /\ RLe(R(0), a.x)
    /\ RLe(R(0), a.y)
    /\ RLe(RAdd(a.x, a.width), R(img[1]))
    /\ RLe(RAdd(a.y, a.height), R(img[2]))

\* C1: the crop Rectangle always lies inside the source: 0 <= x, 0 <= y,
\* x + width <= W and y + height <= H, for every source size and gesture
\* sequence.  (Violated: on a source smaller than the 50-unit floor the
\* resize branch floors the size after capping it.)
C1_CropContained == ImageLoaded => Contained(cropArea, originalImage)

\* x is nonnegative and strictly below 1e-6.
WithinTolerance(x) == x[1] >= 0 /\ x[1] <= (x[2] - 1) \div 1000000

HasRatio(a, ratio) ==
    WithinTolerance(RAbs(RSub(RDiv(a.width, a.height), ratio)))

\* C2: while a fixed aspect preset with ratio r is active, after every
\* mutation of the Rectangle (initialisation on load, preset change, drag
\* move, resize move) |width / height - r| < 1e-6.
C2_AspectRatioKept ==
    (ImageLoaded /\ Truthy(ActiveRatio)) => HasRatio(cropArea, ActiveRatio)

\* C2 witness: a fixed preset on a source well above the size floor, a
\* resize move that widened the rectangle until the bound clamp cut it (it
\* ends at the image's right side).
C2_Witness ==
    /\ ImageLoaded /\ Truthy(ActiveRatio)
    /\ originalImage[1] >= 4 * MinCropSize
    /\ Mode.kind = "Resizing" /\ MovedInGesture
    /\ RAdd(cropArea.x, cropArea.width) = R(originalImage[1])
    /\ RLt(cropStart.width, cropArea.width)
    /\ HasRatio(cropArea, ActiveRatio)

AtLeastMinSize(a) ==
    RLe(R(MinCropSize), a.width) /\ RLe(R(MinCropSize), a.height)

\* C3: after every pointer-move while Resizing(h), for every handle and for
\* a free or fixed preset, width and height are both at least 50.
\* (Violated: the aspect constraint re-derives the height from the width
\* after the floor, and the x < 0 / y < 0 corrections shrink below it.)
C3_MinimumSizeAfterResize ==
    [][((\E cx \in PointerXs, cy \in PointerYs : handleMouseMove(cx, cy))
          /\ Mode.kind = "Resizing")
        => AtLeastMinSize(cropArea')]_cropVars

\* C10: from Idle, pointer-down on the body enters Dragging and pointer-down
\* on handle h enters Resizing(h); from Dragging or Resizing(h), pointer-up
\* or pointer-leave (both run handleMouseUp) returns to Idle; pointer-move
\* never changes the mode.
C10_ModeTransitions ==
    [][/\ \A handle \in Handles \cup {None} :
            ((\E cx \in PointerXs, cy \in PointerYs : handleMouseDown(handle, cx, cy))
               /\ Mode.kind = "Idle")
            => Mode' = IF handle = None
                       THEN [kind |-> "Dragging", handle |-> None]
                       ELSE [kind |-> "Resizing", handle |-> handle]
       /\ (handleMouseUp /\ Mode.kind \in {"Dragging", "Resizing"})
            => Mode'.kind = "Idle"
       /\ (\E cx \in PointerXs, cy \in PointerYs : handleMouseMove(cx, cy))
            => Mode' = Mode
      ]_cropVars

\* C10 witness: a gesture that began on a handle, moved the rectangle and was
\* ended by pointer-up: the page is Idle again.
C10_Witness ==
    /\ ImageLoaded /\ gestures > 0
    /\ Mode.kind = "Idle"
    /\ cropArea # cropStart
    /\ cropArea.width # cropStart.width

\* The centre of a rectangle.
Centre(a) ==
    <<RAdd(a.x, RDiv(a.width, R(2))), RAdd(a.y, RDiv(a.height, R(2)))>>

\* C11: changing the active preset while Idle (the effects the change
\* triggers included) recomputes the rectangle in place: it keeps the centre
\* of the rectangle before the change, has the new ratio and lies inside the
\* source.  (Violated: the effect on [originalImage, selectedPreset.ratio]
\* runs after the handler and centres a fresh 80% rectangle on the image.)
C11_PresetChangeKeepsCentre ==
    [][\A preset \in PresetNames :
          (handlePresetChange(preset) /\ Mode.kind = "Idle") =>
              /\ Centre(cropArea') = Centre(cropArea)
              /\ Truthy(PresetRatio(preset)) =>
                     HasRatio(cropArea', PresetRatio(preset))
              /\ Contained(cropArea', originalImage)
      ]_cropVars

\* C12 as claimed: after any sequence of +90 / -90 rotate commands the
\* rotation accumulator is an integer number of degrees in [0, 360).
C12_RotationNormalized == rotation \in 0 .. 359

\* C12 as amended: the accumulator is a multiple of 90 strictly between
\* -360 and 360 (the remainder keeps the sign of the sum).
C12_RotationWithinOneTurn ==
    rotation \in {-270, -180, -90, 0, 90, 180, 270}

\* C12 witness: three steps to the left.
C12_Witness == ImageLoaded /\ rotation = -270

\* C13: a rotate step changes only the rotation accumulator: the rectangle,
\* the aspect preset, the interaction mode (and the source) are unchanged.
C13_RotateChangesOnlyRotation ==
    [][\A degrees \in {90, -90} :
          handleRotate(degrees) =>
              /\ cropArea' = cropArea
              /\ selectedPreset' = selectedPreset
              /\ Mode' = Mode
              /\ originalImage' = originalImage
      ]_cropVars

\* C13 witness: a rotated source under a fixed preset whose rectangle a
\* gesture has moved away from where it was initialised.
C13_Witness ==
    /\ ImageLoaded /\ rotation = 90
    /\ selectedPreset = "16:9"
    /\ Mode.kind = "Idle"
    /\ cropArea # InitialCropArea(originalImage, ActiveRatio)
    /\ originalImage[1] # originalImage[2]

OddQuarterTurn(rot) == rot \in {90, 270, -90, -270}

\* The rectangle covers the whole frame the page lets the user select.
FullFrame ==
    cropArea = Area(R(0), R(0), R(originalImage[1]), R(originalImage[2]))

\* C14: the rotated intermediate bitmap of a W x H source is H x W exactly
\* when the rotation is an odd multiple of 90 degrees and W x H for 180;
\* and extracting after such a quarter turn with the crop covering the full
\* frame yields an H x W result.  (Violated: the rectangle lives in the
\* unrotated W x H frame, so the full-frame export is W x H.)
C14_RotationSwapsDimensions ==
    (download # NoDownload /\ download.rotation # 0) =>
        /\ <<download.rotatedWidth, download.rotatedHeight>> =
              IF OddQuarterTurn(download.rotation)
              THEN <<originalImage[2], originalImage[1]>>
              ELSE <<originalImage[1], originalImage[2]>>
        /\ (OddQuarterTurn(download.rotation) /\ FullFrame) =>
              <<download.width, download.height>> =
                  <<originalImage[2], originalImage[1]>>

\* C30: at export with a non-zero rotation the region read from the rotated
\* bitmap lies fully inside that bitmap: x + width <= rotated width and
\* y + height <= rotated height, for every source, every rotation reachable
\* by +/-90 steps and every reachable rectangle.  (The exploration ends at
\* the export, so cropArea is the rectangle that was read.)
C30_RegionInsideRotatedBitmap ==
    (download # NoDownload /\ download.rotation # 0) =>
        /\ RLe(RAdd(cropArea.x, cropArea.width), R(download.rotatedWidth))
        /\ RLe(RAdd(cropArea.y, cropArea.height), R(download.rotatedHeight))

\* C20: after an image load fails the page surfaces the error message and
\* still allows re-selection of an input: in the error state the message is
\* rendered together with a control that leads back to the upload state
\* (the reset button) or the upload section itself.
C20_ErrorStateAllowsReselection ==
    cropError # None =>
        /\ ErrorMessageRendered
        /\ UploadSectionRendered \/ ResetButtonRendered

\* The corner diagonally opposite to a handle.
OppositeCorner(a, h) ==
    CASE h = "se" -> <<a.x, a.y>>
      [] h = "sw" -> <<RAdd(a.x, a.width), a.y>>
      [] h = "ne" -> <<a.x, RAdd(a.y, a.height)>>
      [] h = "nw" -> <<RAdd(a.x, a.width), RAdd(a.y, a.height)>>

\* C22: a pointer-move while Resizing(h) moves only the two edges adjacent to
\* h: the corner diagonally opposite to h stays where it was at
\* pointer-down, for every handle and for a free or fixed preset.
C22_OppositeCornerFixed ==
    [][((\E cx \in PointerXs, cy \in PointerYs : handleMouseMove(cx, cy))
          /\ Mode.kind = "Resizing")
        => OppositeCorner(cropArea', isResizing) = OppositeCorner(cropStart, isResizing)
      ]_cropVars

\* v limited to [lo, hi].
Clamp(v, lo, hi) == RMax(lo, RMin(hi, v))

\* C23: a pointer-move while Dragging leaves width and height as they were
\* at pointer-down and sets the position to the pointer-down position plus
\* the pointer's displacement since pointer-down, divided by the display
\* scale and clamped to [0, W - width] x [0, H - height]; the result depends
\* only on the rectangle and the pointer at pointer-down (which every
\* pointer-down records) and on the current pointer position.
C23_DragTranslatesFromPointerDown ==
    [][/\ \A cx \in PointerXs, cy \in PointerYs :
            (handleMouseMove(cx, cy) /\ Mode.kind = "Dragging") =>
               /\ cropArea'.width = cropStart.width
               /\ cropArea'.height = cropStart.height
               /\ cropArea'.x =
                      Clamp(RAdd(cropStart.x, RDiv(R(cx - dragStart.x), displayScale)),
                            R(0), RSub(R(originalImage[1]), cropStart.width))
               /\ cropArea'.y =
                      Clamp(RAdd(cropStart.y, RDiv(R(cy - dragStart.y), displayScale)),
                            R(0), RSub(R(originalImage[2]), cropStart.height))
       /\ \A handle \in Handles \cup {None}, cx \in PointerXs, cy \in PointerYs :
            handleMouseDown(handle, cx, cy) =>
               cropStart' = cropArea /\ dragStart' = [x |-> cx, y |-> cy]
       /\ (cropStart' # cropStart \/ dragStart' # dragStart) => gestures' = gestures + 1
      ]_cropVars

\* C23 witness: a drag whose pointer went right and up further than the
\* image allows: the rectangle lies in the top right corner, with the size
\* it had at pointer-down.
C23_Witness ==
    /\ ImageLoaded /\ Mode.kind = "Dragging"
    /\ RLt(cropStart.x, cropArea.x) /\ RLt(cropArea.y, cropStart.y)
    /\ RAdd(cropArea.x, cropArea.width) = R(originalImage[1])
    /\ cropArea.y = R(0)
    /\ cropArea.width = cropStart.width /\ cropArea.height = cropStart.height

\* C29: after any sequence of pointer-down (on the body or on a handle),
\* pointer-move, pointer-up and pointer-leave events the interaction state
\* is exactly one of Idle, Dragging or Resizing(h): the dragging flag and a
\* resize handle are never set at the same time.
C29_ExactlyOneMode == ~(isDragging /\ isResizing # None)

-----------------------------------------------------------------------------
(* Target-size compressor: properties                                       *)

SearchDone == searchPc = "done"

\* The blobs the loop's probes produced (the fallback encode is not a probe).
LoopProbes ==
    {probes[i] : i \in {j \in DOMAIN probes : j <= Iterations}}

FittingProbes == {b \in LoopProbes : b.size <= targetBytes}

\* C4: for any encoder, monotone or not: when at least one of the 8 probes
\* is within the budget, the returned blob is within the budget and is the
\* probe of the highest quality among all probes within it.
C4_BestFittingProbeReturned ==
    (SearchDone /\ FittingProbes # {}) =>
        /\ returned.size <= targetBytes
        /\ returned \in FittingProbes
        /\ \A b \in FittingProbes : b.quality <= returned.quality

\* C4 witness: a finished search over a non-monotone encoder (a probe of
\* higher quality came out smaller than one of lower quality), with probes
\* within and over the budget.
C4_Witness ==
    /\ SearchDone
    /\ \E a, b \in FittingProbes : a.quality < b.quality /\ a.size > b.size
    /\ LoopProbes # FittingProbes
    /\ returned \in FittingProbes

\* The search as a function of encoder and budget, for a monotone encoder:
\* <<low, high, bestBlob>> after the remaining n iterations.
RECURSIVE SearchFrom(_, _, _, _, _, _)
SearchFrom(enc, target, lo, hi, best, n) ==
    IF n = 0 THEN <<lo, hi, best>>
    ELSE LET mid == Mid(lo, hi)
             next == SearchStep(lo, hi, best,
                                Blob(mid, MonotoneSize(enc, mid)), target)
         IN  SearchFrom(enc, target, next[1], next[2], next[3], n - 1)

\* The quality of the blob the search returns for a monotone encoder.
ReturnedQuality(enc, target) ==
    LET best == SearchFrom(enc, target, minQuality, maxQuality, NoBlob, Iterations)[3]
    IN  IF best # NoBlob THEN best.quality ELSE minQuality

\* C5: for a fixed bitmap and an encoder whose size is non-decreasing in
\* quality, the returned quality is non-decreasing in targetBytes (the
\* fallback to minQuality included): the quality this search returned is at
\* most the one returned for any larger budget, and at least the one for
\* any smaller.
C5_QualityMonotoneInTarget ==
    SearchDone =>
        \A t \in Targets :
            /\ t >= targetBytes => returned.quality <= ReturnedQuality(encoder, t)
            /\ t <= targetBytes => ReturnedQuality(encoder, t) <= returned.quality

\* C5 witness: a finished search whose result lies strictly between the
\* result for a smaller and the result for a larger budget.
C5_Witness ==
    /\ SearchDone
    /\ \E t1, t2 \in Targets :
          /\ t1 < targetBytes /\ targetBytes < t2
          /\ ReturnedQuality(encoder, t1) < returned.quality
          /\ returned.quality < ReturnedQuality(encoder, t2)

\* Grid indices 0 .. last whose encoding is within the budget.
FittingGrid(last) ==
    {k \in 0 .. last : MonotoneSize(encoder, GridQuality(k)) <= targetBytes}

MaxOf(S) == CHOOSE m \in S : \A k \in S : k <= m

\* C6 as claimed: under a monotone encoder the search returns the largest
\* quality, on the grid of step (maxQ - minQ) / 256 with both end points
\* minQ and maxQ included, whose encoding is within the budget.
C6_LargestOnClosedGrid ==
    (SearchDone /\ FittingGrid(GridSteps) # {}) =>
        returned.quality = GridQuality(MaxOf(FittingGrid(GridSteps)))

\* C6 as amended: the same over the grid without its upper end point maxQ
\* (indices 0 .. 255), which no probe reaches; and the blob returned is
\* within the budget.
C6_LargestOnHalfOpenGrid ==
    (SearchDone /\ FittingGrid(GridSteps - 1) # {}) =>
        /\ returned.quality = GridQuality(MaxOf(FittingGrid(GridSteps - 1)))
        /\ returned.size <= targetBytes

\* C6 witness: a finished search whose result is an odd grid point (one only
\* the eighth probe resolves) with the next grid point over the budget.
C6_Witness ==
    /\ SearchDone
    /\ \E k \in 1 .. GridSteps - 2 :
          /\ k % 2 = 1
          /\ returned.quality = GridQuality(k)
          /\ k \in FittingGrid(GridSteps)
          /\ k + 1 \notin FittingGrid(GridSteps)

\* C7: if no probe is within the budget, the search returns the encoding at
\* minQuality, whatever its size, from one additional encode; an encode at
\* minQuality is issued only then, and only as that ninth encode.
C7_FallbackToMinQuality ==
    /\ (SearchDone /\ FittingProbes = {}) =>
          /\ returned.quality = minQuality
          /\ Len(issued) = Iterations + 1
          /\ Len(probes) = Iterations + 1
          /\ returned = probes[Iterations + 1]
    /\ \A i \in DOMAIN issued :
          issued[i] = minQuality =>
              /\ i = Iterations + 1
              /\ FittingProbes = {}
    /\ (SearchDone /\ FittingProbes # {}) => Len(issued) = Iterations

\* C7 witness: a finished search none of whose probes fit, returning a
\* minQuality blob that is itself over the budget.
C7_Witness ==
    /\ SearchDone
    /\ FittingProbes = {}
    /\ returned.quality = minQuality
    /\ returned.size > targetBytes

\* C17: within one search the encodes form a strictly sequential chain:
\* an encode is issued only after the result of the one before has been
\* received, so at most one encode is outstanding, and the results arrive in
\* the order of the calls.
C17_SequentialChain ==
    /\ Len(issued) \in {Len(probes), Len(probes) + 1}
    /\ (Len(issued) = Len(probes) + 1) <=>
          (pending # NoQuality \/ searchPc = "failed")
    /\ \A i \in DOMAIN probes : probes[i].quality = issued[i]

\* C17 witness: the eighth probe is outstanding, seven results are in.
C17_Witness ==
    /\ searchPc = "loop" /\ pending # NoQuality
    /\ Len(probes) = Iterations - 1
    /\ Len(issued) = Iterations

-----------------------------------------------------------------------------
(* Compress page: properties                                                *)

\* canvas.toBlob calls of the running (or last) compressImage.
RunEncodes == directEncodes + Len(issued)

\* C15: when the output format resolves to PNG, compressImage performs
\* exactly one encode and never runs the binary search, whatever the
\* compression mode and the target size.
C15_PngSingleEncode ==
    (runs > 0 /\ mimeType = "image/png") =>
        /\ searchPc = "idle"
        /\ pagePc # "searching"
        /\ issued = <<>>
        /\ RunEncodes = 1

\* C15 witness: a finished PNG run in target-size mode, its one blob stored.
C15_Witness ==
    /\ runs > 0 /\ mimeType = "image/png"
    /\ compressionMode = "target-size"
    /\ pagePc = "idle" /\ ~isCompressing
    /\ compressedBlob # NoBlob
    /\ RunEncodes = 1

\* C16: if the encoder fails at any probe of a target-size search, the
\* failure ends the search (that search issues no further encode), the
\* stored blob and preview URL are left as they were, the page enters its
\* error state and the compressing flag is cleared.  (The steps of a search
\* are taken only while pagePc = "searching".)
C16_EncodeFailureAbortsSearch ==
    [][(pagePc = "searching" /\ searchPc' = "failed") =>
          /\ compressedBlob' = compressedBlob
          /\ compressedUrl' = compressedUrl
          /\ compressError'
          /\ ~isCompressing'
          /\ issued' = issued
          /\ pending' = NoQuality
          /\ pagePc' = "idle"
      ]_vars

\* C16 witness: the second run's search failed at a probe after the first,
\* with the first run's blob and URL still stored.
C16_Witness ==
    /\ searchPc = "failed" /\ runs = 2
    /\ Len(issued) > 1 /\ Len(issued) <= Iterations
    /\ compressError /\ ~isCompressing
    /\ compressedBlob # NoBlob /\ compressedUrl # NoUrl

\* C27: when the settings change while an earlier compression is in
\* flight, then once all compressions in flight have completed the stored
\* blob and preview are those computed from the most recent settings, and
\* the compressing flag is not cleared while a compression is in flight.
C27_LatestSettingsWin ==
    /\ (runs > 0 /\ inflight = {}) => storedRun = runs
    /\ inflight # {} => isCompressing

-----------------------------------------------------------------------------
(* Fit page: properties                                                     *)

\* C8: for every source (width, height >= 1) and every output canvas
\* (1080 x 1080, 2480 x 3508, 3508 x 2480) the scaled image and its offset
\* stay on the canvas: scaledWidth <= canvasWidth, scaledHeight <=
\* canvasHeight, offsetX + scaledWidth <= canvasWidth and offsetY +
\* scaledHeight <= canvasHeight.
C8_FitInsideCanvas ==
    fitResult # NoResult =>
        /\ fitResult.scaledWidth <= fitResult.canvasWidth
        /\ fitResult.scaledHeight <= fitResult.canvasHeight
        /\ fitResult.offsetX + fitResult.scaledWidth <= fitResult.canvasWidth
        /\ fitResult.offsetY + fitResult.scaledHeight <= fitResult.canvasHeight

\* C8 witness: an A4 landscape result whose vertical margin is odd, so that
\* the offset is a half rounded up.
C8_Witness ==
    /\ fitResult # NoResult
    /\ fitResult.canvasWidth = A4PortraitHeight
    /\ (fitResult.canvasHeight - fitResult.scaledHeight) % 2 = 1
    /\ 2 * fitResult.offsetY = fitResult.canvasHeight - fitResult.scaledHeight + 1

\* C18: the fit operation fails with InvalidDimensions, producing no
\* geometry and no output canvas, whenever the source width or height (or
\* the canvas width or height) is <= 0: no ProcessingResult is ever held for
\* a source with a side <= 0.
C18_NoResultForEmptySource ==
    (fitImage # NullImage /\ (fitImage[1] <= 0 \/ fitImage[2] <= 0)) =>
        fitResult = NoResult

-----------------------------------------------------------------------------
(* Step-down resampler: properties                                          *)

\* C9: for every source and every valid target the step-down loop
\* terminates and the returned canvas is exactly targetWidth x
\* targetHeight.
C9_ResizeTerminatesExact ==
    <>(resizePc = "done" /\ finalCanvas = resizeTarget)

\* C9 witness: a call that upscaled the width while it stepped the height
\* down more than once, finished on the exact target.
C9_Witness ==
    /\ resizePc = "done"
    /\ finalCanvas = resizeTarget
    /\ resizeSource[1] < resizeTarget[1]
    /\ resizeSource[2] > 4 * resizeTarget[2]
    /\ currentCanvas[1] = resizeTarget[1]

\* C21: resize page preview URLs are released on every path: for every
\* interleaving of dimension edits, timer firings and toBlob callbacks every
\* preview URL that was created and replaced by a newer one has been
\* revoked, so that at most one un-revoked preview URL exists, the one in
\* previewUrlRef.
C21_AtMostOneLivePreviewUrl ==
    /\ Cardinality(liveUrls) <= 1
    /\ liveUrls \subseteq {previewUrlRef}

\* The download button: disabled={!previewUrl || isResizing}.
DownloadEnabled == resizeSource # NoCanvas /\ previewUrl # NoUrl /\ ~pageIsResizing

\* C28: in every reachable state where the download button is enabled the
\* canvas a download would export has exactly the current effective
\* dimensions, the ones written into the file name.
C28_DownloadMatchesDimensions ==
    DownloadEnabled =>
        resizedCanvasRef = getEffectiveDimensions(resizeSource, percentage)

\* C26: when several dimension edits arrive with less than the debounce
\* delay between them, no resample runs before the delay has elapsed after
\* the last edit, and then exactly one runs, with the dimensions of the last
\* edit: every call of resizeImage comes a full delay after the last edit,
\* is the first since that edit and has its dimensions.
C26_DebouncedSingleResample ==
    [][timerFires =>
          /\ sinceEdit = DebounceDelay
          /\ resamples' = 1
          /\ lastResample' = getEffectiveDimensions(resizeSource, percentage)
      ]_vars

\* C19: the resample operation fails with an InvalidTarget error (and in
\* particular terminates) whenever targetWidth <= 0 or targetHeight <= 0:
\* while the effective dimensions of the page have a side <= 0 and no call
\* is running, the error state holds InvalidTarget.
C19_InvalidTargetRaised ==
    LET dims == getEffectiveDimensions(resizeSource, percentage)
    IN  (resizeSource # NoCanvas /\ resizePc = "idle"
         /\ (dims[1] <= 0 \/ dims[2] <= 0)) =>
            resizeError = "InvalidTarget"

\* A step-down pass of resizeImage: the loop replaces currentCanvas.
StepDownPass ==
    resizePc = "loop" /\ resizePc' = "loop" /\ currentCanvas' # currentCanvas

\* C24: every intermediate buffer produced by a step-down pass has width >=
\* targetWidth and height >= targetHeight: the loop never goes below the
\* target in either axis.
C24_NoOvershootBelowTarget ==
    [][StepDownPass =>
          /\ currentCanvas'[1] >= resizeTarget[1]
          /\ currentCanvas'[2] >= resizeTarget[2]
      ]_resizeVars

\* C24 witness: a pass has run in which half the height would have been
\* below the target, and the buffer has the target's height.
C24_Witness ==
    /\ resizePc = "loop"
    /\ currentCanvas[1] = resizeSource[1] \div 2
    /\ currentCanvas[1] > resizeTarget[1]
    /\ resizeSource[2] \div 2 < resizeTarget[2]
    /\ currentCanvas[2] = resizeTarget[2]

\* C25 as stated: every resampling pass of resizeImage, each step-down pass
\* and the final pass to the exact target, reduces each dimension by a ratio
\* of at most 2:1: the input side is <= 2 x the output side in both axes.
\* (Violated: Math.floor drops the odd pixel, a side of 3 is drawn onto 1.)
C25_PassRatioAtMostTwo ==
    [][/\ StepDownPass =>
             /\ currentCanvas[1] <= 2 * currentCanvas'[1]
             /\ currentCanvas[2] <= 2 * currentCanvas'[2]
       /\ (resizePc = "loop" /\ resizePc' = "done") =>
             /\ currentCanvas[1] <= 2 * finalCanvas'[1]
             /\ currentCanvas[2] <= 2 * finalCanvas'[2]
      ]_resizeVars

\* C25, amended: every pass keeps the 2:1 ratio up to the pixel that
\* Math.floor drops: a step-down pass has input side <= 2 x output side + 1
\* in both axes, the final pass input side <= 2 x output side.
C25_PassRatioAtMostTwoAndOnePixel ==
    [][/\ StepDownPass =>
             /\ currentCanvas[1] <= 2 * currentCanvas'[1] + 1
             /\ currentCanvas[2] <= 2 * currentCanvas'[2] + 1
       /\ (resizePc = "loop" /\ resizePc' = "done") =>
             /\ currentCanvas[1] <= 2 * finalCanvas'[1]
             /\ currentCanvas[2] <= 2 * finalCanvas'[2]
      ]_resizeVars

\* C25 witness: a call has finished after a step-down pass over an odd
\* width that was not limited by the target (7 -> 3, 9 -> 4), and its final
\* pass reduced the width again.
C25_Witness ==
    /\ resizePc = "done"
    /\ resizeSource[1] % 2 = 1
    /\ currentCanvas[1] = resizeSource[1] \div 2
    /\ resizeSource[1] > 2 * currentCanvas[1]
    /\ finalCanvas[1] < currentCanvas[1]

=============================================================================
